---- MODULE Spec2Model ----
(***************************************************************************)
(* Model of src/script.js (Pokemon Finder): the DOM state the script       *)
(* drives, the lookups started by fetchPokemon and suspended at their two  *)
(* awaits, and the user / network events that run the script's handlers.   *)
(*                                                                         *)
(* Text is a sequence of one-character strings, so that trim, toLowerCase, *)
(* capitalize and padStart are computed and not assumed.  Error messages   *)
(* are sequences of words, so that String.prototype.includes is computed.  *)
(***************************************************************************)
EXTENDS Integers, Sequences, FiniteSets, TLC

VARIABLES pokemonInputValue, dom, isDarkMode, themeClasses, lookups, requests,
          started, network, lastEvent, lastSettle

vars == <<pokemonInputValue, dom, isDarkMode, themeClasses, lookups, requests,
          started, network, lastEvent, lastSettle>>

(* Total number of fetchPokemon calls explored. *)
MaxLookups == 2

----------------------------------------------------------------------------
(* Strings.  The accented e of the source's messages is written e here. *)

Whitespace == {" ", "\t"}

UpperOf == [c \in {"p", "i", "b", "e"} |-> CASE c = "p" -> "P" [] c = "i" -> "I"
                                              [] c = "b" -> "B" [] c = "e" -> "E"]

LowerOf == [c \in {"P", "I", "B", "E"} |-> CASE c = "P" -> "p" [] c = "I" -> "i"
                                              [] c = "B" -> "b" [] c = "E" -> "e"]

SetMin(S) == CHOOSE x \in S : \A y \in S : x <= y
SetMax(S) == CHOOSE x \in S : \A y \in S : x >= y

(* String.prototype.trim: drops leading and trailing whitespace only. *)
trim_noop(str) == str

trim(str) ==
    LET keep == {i \in 1..Len(str) : str[i] \notin Whitespace}
    IN  IF keep = {} THEN <<>> ELSE SubSeq(str, SetMin(keep), SetMax(keep))

toLowerCase_noop(str) == str

toLowerCase(str) ==
    [i \in 1..Len(str) |-> IF str[i] \in DOMAIN LowerOf THEN LowerOf[str[i]] ELSE str[i]]

toUpperCase(str) ==
    [i \in 1..Len(str) |-> IF str[i] \in DOMAIN UpperOf THEN UpperOf[str[i]] ELSE str[i]]

(* str.charAt(0).toUpperCase() + str.slice(1) *)
capitalize(str) ==
    IF Len(str) = 0 THEN <<>>
    ELSE toUpperCase(SubSeq(str, 1, 1)) \o SubSeq(str, 2, Len(str))

(* message.includes(sub) on word sequences *)
includes(message, sub) ==
    \E i \in 0..(Len(message) - Len(sub)) : SubSeq(message, i + 1, i + Len(sub)) = sub

RECURSIVE Digits(_)
(* String(n) for a non-negative integer n *)
Digits(n) ==
    LET d == <<"0", "1", "2", "3", "4", "5", "6", "7", "8", "9">>[(n % 10) + 1]
    IN  IF n < 10 THEN <<d>> ELSE Append(Digits(n \div 10), d)

(* padEnd in place of padStart *)
padStart_end(str, width, fill) ==
    str \o [k \in 1..(IF width > Len(str) THEN width - Len(str) ELSE 0) |-> fill]

RECURSIVE padStart(_, _, _)
(* String.prototype.padStart(width, fill) with a one-character fill *)
padStart(str, width, fill) ==
    IF Len(str) >= width THEN str ELSE padStart(<<fill>> \o str, width, fill)

(* toFixed(1) in place of toFixed(2) *)
toFixed2OfTenth_oneDecimal(x) == Digits(x \div 10) \o <<".">> \o Digits(x % 10)

(* (x / 10).toFixed(2) for a non-negative integer x: the double nearest to  *)
(* x/10 rounds to the decimal x/10 itself, printed with two decimals.       *)
toFixed2OfTenth(x) ==
    Digits(x \div 10) \o <<".">> \o Digits(x % 10) \o <<"0">>

convertHeight(decimeters) == toFixed2OfTenth(decimeters) \o <<" ", "m">>

convertWeight(hectograms) == toFixed2OfTenth(hectograms) \o <<" ", "k", "g">>

DefaultTypeColor == "bg-gray-400"

typeColors ==
    [t \in {"normal", "fire", "water", "electric", "grass", "ice", "fighting",
            "poison", "ground", "flying", "psychic", "bug", "rock", "ghost",
            "dragon", "dark", "steel", "fairy"} |->
        CASE t = "normal"   -> "bg-gray-400"
          [] t = "fire"     -> "bg-red-500"
          [] t = "water"    -> "bg-blue-500"
          [] t = "electric" -> "bg-yellow-400"
          [] t = "grass"    -> "bg-green-500"
          [] t = "ice"      -> "bg-blue-200"
          [] t = "fighting" -> "bg-red-700"
          [] t = "poison"   -> "bg-purple-500"
          [] t = "ground"   -> "bg-yellow-600"
          [] t = "flying"   -> "bg-indigo-400"
          [] t = "psychic"  -> "bg-pink-500"
          [] t = "bug"      -> "bg-green-400"
          [] t = "rock"     -> "bg-yellow-700"
          [] t = "ghost"    -> "bg-purple-700"
          [] t = "dragon"   -> "bg-indigo-700"
          [] t = "dark"     -> "bg-gray-800"
          [] t = "steel"    -> "bg-gray-500"
          [] t = "fairy"    -> "bg-pink-300"]

RECURSIVE Join(_)
(* The string spelled by a sequence of characters *)
Join(chars) == IF chars = <<>> THEN "" ELSE Head(chars) \o Join(Tail(chars))

(* typeColors is an object literal, so typeColors[type] also finds the      *)
(* members every object inherits from Object.prototype.                     *)
ObjectPrototypeKeys ==
    {"constructor", "toString", "toLocaleString", "valueOf", "hasOwnProperty",
     "isPrototypeOf", "propertyIsEnumerable", "__proto__", "__defineGetter__",
     "__defineSetter__", "__lookupGetter__", "__lookupSetter__"}

(* The text an inherited member converts to when used as a class name *)
InheritedText(key) ==
    IF key = "__proto__" THEN "[object Object]"
    ELSE "function " \o key \o "() { [native code] }"

(* typeColors[type] || 'bg-gray-400' *)
getTypeColor(type) ==
    IF Join(type) \in DOMAIN typeColors THEN typeColors[Join(type)]
    ELSE IF Join(type) \in ObjectPrototypeKeys THEN InheritedText(Join(type))
    ELSE DefaultTypeColor

(* classList.add(token) throws for an empty token and for one that contains *)
(* whitespace.                                                              *)
classListAddThrows(token) ==
    token = "" \/ token \in {InheritedText(k) : k \in ObjectPrototypeKeys}

----------------------------------------------------------------------------
(* Messages *)

NotFoundMessage ==
    <<"Pokemon", "not", "found", "!", "Please", "check", "the", "name", "or", "ID",
      "and", "try", "again", ".">>

NetworkMessage == <<"Network", "error", "!">>

GenericMessage == <<"Something", "went", "wrong", "!">>

EmptyQueryMessage == <<"Please", "enter", "a", "Pokemon", "name", "or", "ID", "!">>

HttpErrorMessage(status) == <<"HTTP", "Error", ":">> \o Digits(status)

(* Messages of the TypeError a browser's fetch rejects with (Chromium,      *)
(* Firefox, WebKit).                                                        *)
TransportMessages ==
    { <<"Failed", "to", "fetch">>,
      <<"NetworkError", "when", "attempting", "to", "fetch", "resource">>,
      <<"Load", "failed">> }

JsonSyntaxMessage == <<"Unexpected", "token">>

InvalidCharacterMessage == <<"The", "token", "provided", "contains", "whitespace">>

UndefinedPropertyMessage == <<"Cannot", "read", "properties", "of", "undefined">>

----------------------------------------------------------------------------
(* DOM helpers: each takes the DOM record and returns the updated one. *)

showLoading(d) ==
    [d EXCEPT !.pokemonCardHidden = TRUE,
              !.errorMessageHidden = TRUE,
              !.loadingIndicatorHidden = FALSE,
              !.searchBtnDisabled = TRUE,
              !.searchBtnText = "Searching..."]

hideLoading(d) ==
    [d EXCEPT !.loadingIndicatorHidden = TRUE,
              !.searchBtnDisabled = FALSE,
              !.searchBtnText = "Search"]

(* showError without hideElement(pokemonCard) *)
showError_keepCard(d, message) ==
    [hideLoading(d) EXCEPT !.errorText = message,
                           !.errorMessageHidden = FALSE]

showError(d, message) ==
    [hideLoading(d) EXCEPT !.pokemonCardHidden = TRUE,
                           !.errorText = message,
                           !.errorMessageHidden = FALSE]

----------------------------------------------------------------------------
(* Response bodies.  A body is the parsed JSON object; `missing` lists the  *)
(* properties the object does not have (reading them gives undefined).      *)

JsNull == "<null>"

(* if (url): null, undefined and the empty string are falsy *)
Truthy_notNull(url) == url # JsNull

Truthy(url) == url \notin {JsNull, ""}

Pikachu ==
    [missing |-> {}, name |-> <<"p", "i", "k", "a", "c", "h", "u">>, id |-> 25,
     height |-> 4, weight |-> 60, base_experience |-> 112,
     sprites |-> [front_default |-> "front.png", back_default |-> JsNull,
                  front_shiny |-> JsNull, back_shiny |-> JsNull],
     types |-> << <<"e", "l", "e", "c", "t", "r", "i", "c">> >>]

BigRecord ==
    [missing |-> {}, name |-> <<"b", "i", "g">>, id |-> 1200,
     height |-> 200, weight |-> 9500, base_experience |-> 345,
     sprites |-> [front_default |-> "big-front.png", back_default |-> "big-back.png",
                  front_shiny |-> "", back_shiny |-> "big-sback.png"],
     types |-> << <<"i", "c", "e">>, <<"b", "u", "g">>, <<"s", "k", "y">>, <<"i", "c", "e">> >>]

ValueOfRecord ==
    [missing |-> {}, name |-> <<"e", "b">>, id |-> 7,
     height |-> 10, weight |-> 5, base_experience |-> 64,
     sprites |-> [front_default |-> "", back_default |-> "eb-back.png",
                  front_shiny |-> JsNull, back_shiny |-> JsNull],
     types |-> << <<"i", "c", "e">>, <<"v", "a", "l", "u", "e", "O", "f">> >>]

WellFormedBodies == {Pikachu, BigRecord}

MalformedBodies ==
    { [Pikachu EXCEPT !.missing = {"sprites"}],
      [BigRecord EXCEPT !.missing = {"types"}] }

Bodies == WellFormedBodies \cup MalformedBodies

(* The imageUrls array literal of displayPokemon *)
imageUrls(data) ==
    << [url |-> data.sprites.front_default, label |-> "Front"],
       [url |-> data.sprites.back_default,  label |-> "Back"],
       [url |-> data.sprites.front_shiny,   label |-> "Shiny Front"],
       [url |-> data.sprites.back_shiny,    label |-> "Shiny Back"] >>

(* imageUrls.forEach(...): the children appended to pokemonImages *)
RenderImages(data) ==
    LET entry(e) == [src |-> e.url, alt |-> <<data.name, e.label>>, label |-> e.label]
    IN  SelectSeq([i \in 1..4 |-> entry(imageUrls(data)[i])], LAMBDA e : Truthy(e.src))

(* data.types.map(...): the children appended to pokemonTypes; the callback *)
(* throws at classList.add, before appendChild, for an invalid class token. *)
RenderTypes(data) ==
    LET n == Len(data.types)
        bad == {i \in 1..n : classListAddThrows(getTypeColor(data.types[i]))}
        stop == IF bad = {} THEN n ELSE SetMin(bad) - 1
    IN  [children |-> [i \in 1..stop |->
                          [text |-> capitalize(data.types[i]),
                           colorClass |-> getTypeColor(data.types[i])]],
         thrown |-> bad # {}]

(* element.innerHTML = '' *)
clearInnerHTML_keep(children) == children

clearInnerHTML(children) == <<>>

(* displayPokemon runs top to bottom and stops at the first statement that  *)
(* throws; the result is the DOM at that point, whether it threw, the       *)
(* message of the error and the kind of failure.                            *)
displayPokemon(d, data) ==
    LET d1 == [hideLoading(d) EXCEPT !.errorMessageHidden = TRUE]
        d2 == [d1 EXCEPT !.pokemonName = capitalize(data.name),
                         !.pokemonId = <<"#">> \o padStart(Digits(data.id), 3, "0"),
                         !.pokemonImages = clearInnerHTML(d1.pokemonImages)]
        d3 == [d2 EXCEPT !.pokemonImages = d2.pokemonImages \o RenderImages(data),
                         !.pokemonHeight = convertHeight(data.height),
                         !.pokemonWeight = convertWeight(data.weight),
                         !.pokemonExperience = data.base_experience,
                         !.pokemonTypes = clearInnerHTML(d2.pokemonTypes)]
        types == RenderTypes(data)
        d4 == [d3 EXCEPT !.pokemonTypes = d3.pokemonTypes \o types.children]
        d5 == [d4 EXCEPT !.pokemonCardHidden = FALSE]
    IN  IF "name" \in data.missing
            THEN [dom |-> d1, thrown |-> TRUE, message |-> UndefinedPropertyMessage,
                  cause |-> "shape"]
        ELSE IF "sprites" \in data.missing
            THEN [dom |-> d2, thrown |-> TRUE, message |-> UndefinedPropertyMessage,
                  cause |-> "shape"]
        ELSE IF "types" \in data.missing
            THEN [dom |-> d3, thrown |-> TRUE, message |-> UndefinedPropertyMessage,
                  cause |-> "shape"]
        ELSE IF types.thrown
            THEN [dom |-> d4, thrown |-> TRUE, message |-> InvalidCharacterMessage,
                  cause |-> "render"]
        ELSE [dom |-> d5, thrown |-> FALSE, message |-> <<>>, cause |-> "ok"]

----------------------------------------------------------------------------
(* fetchPokemon *)

(* The bindings script.js declares at top level. *)
DeclaredIdentifiers ==
    {"pokemonInput", "searchBtn", "loadingIndicator", "errorMessage", "errorText",
     "pokemonCard", "darkModeToggle", "pokemonName", "pokemonId", "pokemonImages",
     "pokemonHeight", "pokemonWeight", "pokemonExperience", "pokemonTypes",
     "isDarkMode", "capitalize", "convertHeight", "convertWeight", "getTypeColor",
     "showElement", "hideElement", "showLoading", "hideLoading", "showError",
     "displayPokemon", "fetchPokemon"}

(* The message the catch block's if / else if / else chain passes to showError *)
ClassifyError(message) ==
    IF includes(message, <<"Pokemon", "not", "found">>) THEN message
    ELSE IF includes(message, <<"Failed", "to", "fetch">>) THEN NetworkMessage
    ELSE GenericMessage

(* The catch block of fetchPokemon.  Its first statement is the expression  *)
(* statement `s`: evaluating an identifier that has no binding throws a     *)
(* ReferenceError, which leaves the catch block before console.error and    *)
(* showError run and rejects the promise fetchPokemon returned.             *)
CatchBlock(d, message) ==
    IF "s" \notin DeclaredIdentifiers
        THEN [dom |-> d, promise |-> "rejected"]
        ELSE [dom |-> showError(d, ClassifyError(message)), promise |-> "fulfilled"]

(* fetch(url): one outbound GET is recorded per call. *)
BaseUrl == "https://pokeapi.co/api/v2/pokemon/"

fetch_twice(reqs, id, url) ==
    Append(Append(reqs, [lookup |-> id, url |-> url]), [lookup |-> id, url |-> url])

fetch(reqs, id, url) == Append(reqs, [lookup |-> id, url |-> url])

Pending == {i \in 1..Len(lookups) : lookups[i].promise = "pending"}

(* fetchPokemon(nameOrId) up to its first await *)
fetchPokemon(nameOrId) ==
    /\ Len(lookups) < MaxLookups
    /\ dom' = showLoading(dom)
    /\ requests' = fetch(requests, Len(lookups) + 1, <<BaseUrl>> \o toLowerCase(nameOrId))
    /\ lookups' = Append(lookups, [nameOrId |-> nameOrId, pc |-> "awaitFetch",
                                   promise |-> "pending"])
    /\ UNCHANGED lastSettle

(* What the network can answer to a request. *)
Statuses == {200, 404, 500}

FetchOutcomes ==
    {[kind |-> "reject", status |-> 0, message |-> m] : m \in TransportMessages}
    \cup {[kind |-> "response", status |-> st, message |-> <<>>] : st \in Statuses}

ResponseOk(status) == status \in 200..299

(* The promise fetchPokemon returned for lookup i settles; lastSettle notes  *)
(* which lookup it was and what the network had answered.                   *)
(* body is the set holding the parsed body, if one was received; repeat     *)
(* counts the successful renders of that same body in a row.                *)
Settle(i, promise, cause, body) ==
    /\ lookups' = [lookups EXCEPT ![i].pc = "done", ![i].promise = promise]
    /\ lastSettle' = [lookup |-> i, cause |-> cause, body |-> body,
                      repeat |-> IF cause # "ok" THEN 0
                                 ELSE IF lastSettle.cause = "ok" /\ lastSettle.body = body
                                      THEN lastSettle.repeat + 1
                                      ELSE 1]

(* `await fetch(...)` settles for lookup i: the status check of the try     *)
(* block, then either the catch block or the suspension at response.json(). *)
FetchSettle(i) ==
    /\ i \in 1..Len(lookups)
    /\ lookups[i].pc = "awaitFetch"
    /\ \E o \in FetchOutcomes :
         IF o.kind = "reject" THEN
             LET r == CatchBlock(dom, o.message)
             IN  dom' = r.dom /\ Settle(i, r.promise, "transport", {})
         ELSE IF ~ResponseOk(o.status) THEN
             LET message == IF o.status = 404 THEN NotFoundMessage
                                              ELSE HttpErrorMessage(o.status)
                 r == CatchBlock(dom, message)
             IN  dom' = r.dom
                 /\ Settle(i, r.promise,
                           IF o.status = 404 THEN "status404" ELSE "statusOther", {})
         ELSE
             /\ lookups' = [lookups EXCEPT ![i].pc = "awaitJson"]
             /\ dom' = dom
             /\ UNCHANGED lastSettle
    /\ lastEvent' = "fetchSettle"
    /\ UNCHANGED <<pokemonInputValue, isDarkMode, themeClasses, requests, started, network>>

(* `await response.json()` settles for lookup i: displayPokemon(data), or   *)
(* the catch block when parsing or rendering throws.                        *)
JsonSettle(i) ==
    /\ i \in 1..Len(lookups)
    /\ lookups[i].pc = "awaitJson"
    /\ \/ LET r == CatchBlock(dom, JsonSyntaxMessage)
          IN  dom' = r.dom /\ Settle(i, r.promise, "parse", {})
       \/ \E data \in network :
            LET shown == displayPokemon(dom, data)
                r == CatchBlock(shown.dom, shown.message)
            IN  IF shown.thrown
                    THEN dom' = r.dom /\ Settle(i, r.promise, shown.cause, {data})
                    ELSE dom' = shown.dom /\ Settle(i, "fulfilled", "ok", {data})
    /\ lastEvent' = "jsonSettle"
    /\ UNCHANGED <<pokemonInputValue, isDarkMode, themeClasses, requests, started, network>>

----------------------------------------------------------------------------
(* Event handlers *)

InputValues == { <<>>, <<" ", "\t">>, <<" ", "P", "i", " ">> }

Keys == {"Enter", "a"}

DefaultQuery == <<"p", "i", "k", "a", "c", "h", "u">>

(* The user edits the text of #pokemonInput. *)
SetInput(v) ==
    /\ v \in InputValues
    /\ v # pokemonInputValue
    /\ pokemonInputValue' = v
    /\ lastEvent' = "input"
    /\ UNCHANGED <<dom, isDarkMode, themeClasses, lookups, requests, started, network,
                   lastSettle>>

(* The body shared by the click and the Enter handlers *)
Search ==
    LET input == trim(pokemonInputValue)
    IN  IF input = <<>>
            THEN dom' = showError(dom, EmptyQueryMessage)
                 /\ UNCHANGED <<lookups, requests, lastSettle>>
            ELSE fetchPokemon(input)

(* searchBtn 'click' listener; a disabled button dispatches no click. *)
ClickSearch ==
    /\ ~dom.searchBtnDisabled
    /\ Search
    /\ lastEvent' = "click"
    /\ UNCHANGED <<pokemonInputValue, isDarkMode, themeClasses, started, network>>

(* pokemonInput 'keypress' listener *)
Keypress(key) ==
    /\ key \in Keys
    /\ IF key = "Enter"
           THEN /\ Search
                /\ lastEvent' = "enter"
           ELSE /\ lastEvent' = "keypress"
                /\ UNCHANGED <<dom, lookups, requests, lastSettle>>
    /\ UNCHANGED <<pokemonInputValue, isDarkMode, themeClasses, started, network>>

(* window 'DOMContentLoaded' listener; the event fires once. *)
Startup ==
    /\ ~started
    /\ started' = TRUE
    /\ fetchPokemon(DefaultQuery)
    /\ lastEvent' = "startup"
    /\ UNCHANGED <<pokemonInputValue, isDarkMode, themeClasses, network>>

(* The class lists the theme handler edits: document.body, darkModeToggle   *)
(* and the span inside it.                                                  *)
GradientClasses == {"bg-gradient-to-br", "from-blue-400", "via-purple-500", "to-pink-500"}

LightClasses == [body |-> GradientClasses, toggle |-> {"bg-gray-300"}, knob |-> {}]

(* isDarkMode = true in place of isDarkMode = !isDarkMode *)
toggleTheme_alwaysDark(dark, classes) ==
    [isDarkMode |-> TRUE,
     classes |-> [body |-> (classes.body \cup {"bg-gray-900"}) \ GradientClasses,
                  toggle |-> (classes.toggle \cup {"bg-purple-600"}) \ {"bg-gray-300"},
                  knob |-> classes.knob \cup {"translate-x-6"}]]

(* The body of the darkModeToggle 'click' listener *)
toggleTheme(dark, classes) ==
    IF ~dark
        THEN [isDarkMode |-> TRUE,
              classes |-> [body |-> (classes.body \cup {"bg-gray-900"}) \ GradientClasses,
                           toggle |-> (classes.toggle \cup {"bg-purple-600"}) \ {"bg-gray-300"},
                           knob |-> classes.knob \cup {"translate-x-6"}]]
        ELSE [isDarkMode |-> FALSE,
              classes |-> [body |-> (classes.body \ {"bg-gray-900"}) \cup GradientClasses,
                           toggle |-> (classes.toggle \ {"bg-purple-600"}) \cup {"bg-gray-300"},
                           knob |-> classes.knob \ {"translate-x-6"}]]

(* darkModeToggle 'click' listener *)
ToggleDarkMode ==
    /\ isDarkMode' = toggleTheme(isDarkMode, themeClasses).isDarkMode
    /\ themeClasses' = toggleTheme(isDarkMode, themeClasses).classes
    /\ lastEvent' = "toggle"
    /\ UNCHANGED <<pokemonInputValue, dom, lookups, requests, started, network,
                   lastSettle>>

(* The state after script.js has run, given the bodies the service serves *)
InitWith(served) ==
    /\ network = served
    /\ pokemonInputValue = <<>>
    /\ dom = [pokemonCardHidden |-> TRUE, errorMessageHidden |-> TRUE,
              loadingIndicatorHidden |-> TRUE,
              searchBtnDisabled |-> FALSE, searchBtnText |-> "Search",
              errorText |-> <<>>,
              pokemonName |-> <<>>, pokemonId |-> <<>>, pokemonImages |-> <<>>,
              pokemonHeight |-> <<>>, pokemonWeight |-> <<>>,
              pokemonExperience |-> 0, pokemonTypes |-> <<>>]
    /\ isDarkMode = FALSE
    /\ themeClasses = LightClasses
    /\ lookups = <<>>
    /\ requests = <<>>
    /\ started = FALSE
    /\ lastEvent = "none"
    /\ lastSettle = [lookup |-> 0, cause |-> "none", body |-> {}, repeat |-> 0]

Init == InitWith(Bodies)

Next ==
    \/ Startup
    \/ \E v \in InputValues : SetInput(v)
    \/ ClickSearch
    \/ \E key \in Keys : Keypress(key)
    \/ \E i \in 1..MaxLookups : FetchSettle(i)
    \/ \E i \in 1..MaxLookups : JsonSettle(i)
    \/ ToggleDarkMode

Spec == Init /\ [][Next]_vars

----------------------------------------------------------------------------
(* Rendering over a range of records: the service serves one record, drawn *)
(* from families that vary the numbers, the sprites and the types, and the *)
(* startup lookup fetches and renders it.                                  *)

MaxValue == 130

MaxTypes == 2

NumberBodies ==
    {[Pikachu EXCEPT !.id = n, !.height = n, !.weight = n + 56] : n \in 0..MaxValue}
    \cup {[BigRecord EXCEPT !.id = n, !.height = n, !.weight = n + 1] : n \in {999, 1000, 1200}}

SpriteBodies ==
    {[Pikachu EXCEPT !.sprites = sp] :
        sp \in [front_default : {"front_default.png", JsNull, ""},
                back_default  : {"back_default.png", JsNull, ""},
                front_shiny   : {"front_shiny.png", JsNull, ""},
                back_shiny    : {"back_shiny.png", JsNull, ""}]}

TypeNames ==
    { <<"i", "c", "e">>, <<"b", "u", "g">>, <<"s", "k", "y">>, <<>>,
      <<"v", "a", "l", "u", "e", "O", "f">> }

TypeBodies ==
    {[Pikachu EXCEPT !.types = t] :
        t \in UNION {[1..n -> TypeNames] : n \in 0..MaxTypes}}

RenderBodies ==
    Bodies \cup {ValueOfRecord} \cup NumberBodies \cup SpriteBodies \cup TypeBodies

RenderInit == \E b \in RenderBodies : InitWith({b})

RenderNext ==
    \/ Startup
    \/ \E i \in 1..MaxLookups : FetchSettle(i)
    \/ \E i \in 1..MaxLookups : JsonSettle(i)

RenderSpec == RenderInit /\ [][RenderNext]_vars

----------------------------------------------------------------------------
(* Vocabulary of the properties *)

FailureCauses == {"transport", "status404", "statusOther", "parse", "shape", "render"}

BusyCleared == ~dom.searchBtnDisabled /\ dom.loadingIndicatorHidden

BusySet == dom.searchBtnDisabled /\ ~dom.loadingIndicatorHidden

ErrorShown(message) == ~dom.errorMessageHidden /\ dom.errorText = message

AllWhitespace(str) == \A k \in 1..Len(str) : str[k] \in Whitespace

(* Lookup i settles in this step. *)
SettlesNow(i) == lookups[i].promise = "pending" /\ lookups'[i].promise # "pending"

RequestsOf(i) == {k \in 1..Len(requests) : requests[k].lookup = i}

----------------------------------------------------------------------------
(* C1: whenever a lookup settles, on any exit path, the busy state is      *)
(* cleared: the search button is enabled and the loading indicator hidden. *)
C1_BusyClearedWhenSettled ==
    [][\A i \in 1..Len(lookups) : SettlesNow(i) => BusyCleared']_vars

(* C2: a click or an Enter press while the input is empty or whitespace    *)
(* only shows the 'please enter a name or ID' message and issues no        *)
(* request and starts no lookup.                                           *)
C2_EmptyQueryRejected ==
    [][(lastEvent' \in {"click", "enter"} /\ AllWhitespace(pokemonInputValue))
          => /\ ErrorShown(EmptyQueryMessage)'
             /\ requests' = requests
             /\ lookups' = lookups]_vars

C2_Witness ==
    /\ lastEvent = "click"
    /\ pokemonInputValue # <<>>
    /\ AllWhitespace(pokemonInputValue)
    /\ ErrorShown(EmptyQueryMessage)

(* C3: at most one lookup is outstanding at any time. *)
C3_AtMostOneOutstanding == Cardinality(Pending) <= 1

(* C4: while a lookup is outstanding the busy state is set: the loading    *)
(* indicator is visible and the search button is disabled.                 *)
C4_BusyWhileOutstanding == Pending # {} => BusySet

(* C5: the promise returned by fetchPokemon never rejects: every failure   *)
(* is handled inside the catch block.                                      *)
C5_NoRejectedLookup == \A i \in 1..Len(lookups) : lookups[i].promise # "rejected"

(* C6: a lookup answered with status 404 settles with the not-found        *)
(* message shown and the card hidden; one answered with another            *)
(* non-success status settles with the generic message shown.              *)
C6_StatusOutcome ==
    [][\A i \in 1..Len(lookups) : SettlesNow(i) =>
          /\ lastSettle'.cause = "status404"
                => ErrorShown(NotFoundMessage)' /\ dom'.pokemonCardHidden
          /\ lastSettle'.cause = "statusOther"
                => ErrorShown(GenericMessage)' /\ dom'.pokemonCardHidden]_vars

(* C7: a lookup whose request fails at transport level settles with the    *)
(* connectivity message shown, whatever the text of the thrown error.      *)
C7_TransportOutcome ==
    [][\A i \in 1..Len(lookups) :
          (SettlesNow(i) /\ lastSettle'.cause = "transport")
              => ErrorShown(NetworkMessage)']_vars

(* C8: a lookup whose success response does not parse, or lacks sprites or *)
(* types, settles with the generic message shown, the card hidden and the  *)
(* busy state cleared.                                                     *)
C8_MalformedOutcome ==
    [][\A i \in 1..Len(lookups) :
          (SettlesNow(i) /\ lastSettle'.cause \in {"parse", "shape"})
              => /\ ErrorShown(GenericMessage)'
                 /\ dom'.pokemonCardHidden
                 /\ BusyCleared']_vars

(* C9: every lookup has a non-empty query and exactly one outbound         *)
(* request, and there is no request besides these: no failure is retried.  *)
C9_OneRequestPerLookup ==
    /\ Len(requests) = Len(lookups)
    /\ \A i \in 1..Len(lookups) :
          lookups[i].nameOrId # <<>> /\ Cardinality(RequestsOf(i)) = 1

C9_Witness ==
    /\ lastSettle.cause \in FailureCauses
    /\ Pending = {}
    /\ lastEvent \in {"input", "keypress", "toggle"}
    /\ Cardinality(RequestsOf(lastSettle.lookup)) = 1

(* C10: after a lookup has failed and none is outstanding the UI is ready  *)
(* for the next query: the search button accepts a click again and the     *)
(* loading indicator is gone.                                              *)
C10_InteractiveAfterFailure ==
    (lastSettle.cause \in FailureCauses /\ Pending = {}) => BusyCleared

(* C11: every initiation trigger (click, Enter, startup) with a query that *)
(* is not blank issues one request whose URL is the fixed base followed    *)
(* by the input with its leading and trailing whitespace dropped and its   *)
(* letters lower-cased, and nothing else changed.                          *)
UpperLowerPairs == {<<"P", "p">>, <<"I", "i">>, <<"B", "b">>, <<"E", "e">>}

IsLowerOf(l, c) ==
    IF \E pr \in UpperLowerPairs : pr[1] = c THEN <<c, l>> \in UpperLowerPairs ELSE l = c

IsTrimmedLowerOf(q, input) ==
    \E a \in 0..Len(input) :
        /\ a + Len(q) <= Len(input)
        /\ \A k \in 1..Len(input) : (k <= a \/ k > a + Len(q)) => input[k] \in Whitespace
        /\ Len(q) > 0 => q[1] \notin Whitespace /\ q[Len(q)] \notin Whitespace
        /\ \A k \in 1..Len(q) : IsLowerOf(q[k], input[a + k])

TriggerInput == IF lastEvent' = "startup" THEN DefaultQuery ELSE pokemonInputValue

C11_RequestForTrimmedLowerCasedInput ==
    [][(lastEvent' \in {"click", "enter", "startup"} /\ ~AllWhitespace(TriggerInput))
          => /\ Len(requests') = Len(requests) + 1
             /\ LET url == requests'[Len(requests')].url
                IN  /\ Head(url) = BaseUrl
                    /\ IsTrimmedLowerOf(Tail(url), TriggerInput)]_vars

C11_Witness ==
    /\ lastEvent = "enter"
    /\ pokemonInputValue = <<" ", "P", "i", " ">>
    /\ requests # <<>>
    /\ requests[Len(requests)].url = <<BaseUrl, "p", "i">>

----------------------------------------------------------------------------
(* What a card must hold for a record, stated from the record alone *)

Slots == <<"front_default", "back_default", "front_shiny", "back_shiny">>

SlotLabels == <<"Front", "Back", "Shiny Front", "Shiny Back">>

SlotPresent(data, k) == data.sprites[Slots[k]] \notin {JsNull, ""}

(* images is the list of the present slots, in slot order, each labelled *)
ImagesMatch(images, data) ==
    /\ Len(images) = Cardinality({k \in 1..4 : SlotPresent(data, k)})
    /\ \E f \in [1..Len(images) -> 1..4] :
          /\ \A j1, j2 \in 1..Len(images) : j1 < j2 => f[j1] < f[j2]
          /\ \A j \in 1..Len(images) :
                /\ SlotPresent(data, f[j])
                /\ images[j].label = SlotLabels[f[j]]
                /\ images[j].src = data.sprites[Slots[f[j]]]

TableColor(name) ==
    IF Join(name) \in DOMAIN typeColors THEN typeColors[Join(name)] ELSE "bg-gray-400"

IsCapitalized(text, name) ==
    /\ Len(text) = Len(name)
    /\ \A k \in 2..Len(name) : text[k] = name[k]
    /\ Len(name) > 0 =>
          IF \E pr \in UpperLowerPairs : pr[2] = name[1]
              THEN <<text[1], name[1]>> \in UpperLowerPairs
              ELSE text[1] = name[1]

(* badges has one entry per category of the record, in order, duplicates  *)
(* kept, each with the table colour of its name or the default colour     *)
BadgesMatch(badges, data) ==
    /\ Len(badges) = Len(data.types)
    /\ \A j \in 1..Len(badges) :
          /\ IsCapitalized(badges[j].text, data.types[j])
          /\ badges[j].colorClass = TableColor(data.types[j])

CardVisible == ~dom.pokemonCardHidden

ErrorVisible == ~dom.errorMessageHidden

LoadingVisible == ~dom.loadingIndicatorHidden

(* C12: a step that starts a lookup hides the card and the error of the    *)
(* previous one; when a lookup settles, the view holds nothing of an older *)
(* outcome: after a success the card is shown with exactly the images and  *)
(* badges of the new record and no error, after a failure no card.         *)
C12_PreviousOutcomeDiscarded ==
    [][/\ Len(lookups') > Len(lookups) => (~CardVisible' /\ ~ErrorVisible')
       /\ \A i \in 1..Len(lookups) : SettlesNow(i) =>
             IF lastSettle'.cause = "ok"
                 THEN /\ CardVisible' /\ ~ErrorVisible'
                      /\ \A data \in lastSettle'.body :
                            /\ ImagesMatch(dom'.pokemonImages, data)
                            /\ BadgesMatch(dom'.pokemonTypes, data)
                 ELSE ~CardVisible']_vars

(* C13: rendering a record again, right after a successful render of the   *)
(* same record, leaves the name, the identifier, the image list and the    *)
(* badge list of the card as they were: nothing accumulates.               *)
DisplayModel(d) == <<d.pokemonName, d.pokemonId, d.pokemonImages, d.pokemonTypes>>

C13_RepeatedRenderIdempotent ==
    [][\A i \in 1..Len(lookups) :
          (/\ SettlesNow(i)
           /\ lastSettle.cause = "ok"
           /\ lastSettle'.cause = "ok"
           /\ lastSettle'.body = lastSettle.body)
              => DisplayModel(dom') = DisplayModel(dom)]_vars

C13_Witness ==
    /\ lastSettle.cause = "ok"
    /\ lastSettle.repeat >= 2
    /\ lastSettle.body = {BigRecord}
    /\ CardVisible
    /\ Len(dom.pokemonImages) = 3
    /\ Len(dom.pokemonTypes) = 4

(* The last step rendered this body up to and including its images. *)
ImagesRendered(data) ==
    /\ lastEvent = "jsonSettle"
    /\ lastSettle.body = {data}
    /\ data.missing \cap {"name", "sprites"} = {}

(* C14: the image list of a rendered record holds exactly the slots whose  *)
(* URL is neither null nor empty, in the order front, back, shiny front,   *)
(* shiny back, each with its label; with only front_default present it is  *)
(* the single entry labelled Front.                                        *)
C14_ImagesArePresentSlotsInOrder ==
    \A data \in lastSettle.body : ImagesRendered(data) =>
        /\ ImagesMatch(dom.pokemonImages, data)
        /\ (SlotPresent(data, 1) /\ \A k \in 2..4 : ~SlotPresent(data, k))
              => (Len(dom.pokemonImages) = 1 /\ dom.pokemonImages[1].label = "Front")

C14_Witness ==
    /\ ImagesRendered(Pikachu)
    /\ lastSettle.cause = "ok"
    /\ Len(dom.pokemonImages) = 1
    /\ dom.pokemonImages[1].label = "Front"


(* The last step received this body, which has every expected property. *)
CompleteBodyReceived(data) ==
    /\ lastEvent = "jsonSettle"
    /\ lastSettle.body = {data}
    /\ data.missing = {}

(* C15: the badge list of a rendered record has one entry per category of  *)
(* the record, in source order, duplicates kept; each badge carries the    *)
(* table colour of the raw category name, and the default colour for       *)
(* every name that is not one of the 18 names of the table.                *)
C15_BadgesFollowTable ==
    \A data \in lastSettle.body :
        CompleteBodyReceived(data) => BadgesMatch(dom.pokemonTypes, data)

----------------------------------------------------------------------------
(* Reading decimal text back as a number *)

DigitChars == {"0", "1", "2", "3", "4", "5", "6", "7", "8", "9"}

DigitValue(c) ==
    CASE c = "0" -> 0 [] c = "1" -> 1 [] c = "2" -> 2 [] c = "3" -> 3 [] c = "4" -> 4
      [] c = "5" -> 5 [] c = "6" -> 6 [] c = "7" -> 7 [] c = "8" -> 8 [] c = "9" -> 9

RECURSIVE DecimalValue(_)
DecimalValue(text) ==
    IF text = <<>> THEN 0
    ELSE 10 * DecimalValue(SubSeq(text, 1, Len(text) - 1)) + DigitValue(text[Len(text)])

IsDigits(text) == Len(text) > 0 /\ \A k \in 1..Len(text) : text[k] \in DigitChars

(* text is '#' and the decimal digits of id, with leading zeros up to three *)
(* digits and none beyond                                                  *)
IsPaddedId(text, id) ==
    /\ Len(text) >= 4
    /\ Head(text) = "#"
    /\ IsDigits(Tail(text))
    /\ DecimalValue(Tail(text)) = id
    /\ Len(text) > 4 => text[2] # "0"

(* text is value/10 written with an integer part, a point and exactly two  *)
(* decimals, then a space and the unit                                     *)
IsTenthsWithUnit(text, value, unit) ==
    LET n == Len(text) - Len(unit) - 1
    IN  /\ n >= 4
        /\ SubSeq(text, n + 1, Len(text)) = <<" ">> \o unit
        /\ text[n - 2] = "."
        /\ IsDigits(SubSeq(text, 1, n - 3))
        /\ n - 3 > 1 => text[1] # "0"
        /\ IsDigits(SubSeq(text, n - 1, n))
        /\ 100 * DecimalValue(SubSeq(text, 1, n - 3)) + DecimalValue(SubSeq(text, n - 1, n))
              = 10 * value

(* The last step rendered this body up to and including its numbers. *)
NumbersRendered(data) == ImagesRendered(data)

(* C16: the identifier of a rendered record is '#' followed by the decimal *)
(* id, zero-padded on the left to three digits and never truncated: 25     *)
(* gives #025 and 1200 gives #1200.                                        *)
C16_IdentifierPaddedToThree ==
    \A data \in lastSettle.body : NumbersRendered(data) =>
        /\ IsPaddedId(dom.pokemonId, data.id)
        /\ data.id = 25 => dom.pokemonId = <<"#", "0", "2", "5">>
        /\ data.id = 1200 => dom.pokemonId = <<"#", "1", "2", "0", "0">>

C16_Witness ==
    /\ lastSettle.cause = "ok"
    /\ \E data \in lastSettle.body : NumbersRendered(data) /\ data.id = 1200
    /\ dom.pokemonId = <<"#", "1", "2", "0", "0">>

----------------------------------------------------------------------------
(* C18: between event handlers at most one of the loading indicator, the   *)
(* error message and the card is visible.                                  *)
C18_ViewsMutuallyExclusive ==
    Cardinality({v \in {"loading", "error", "card"} :
                    \/ v = "loading" /\ LoadingVisible
                    \/ v = "error" /\ ErrorVisible
                    \/ v = "card" /\ CardVisible}) <= 1

C18_Witness ==
    /\ ErrorVisible
    /\ dom.errorText = EmptyQueryMessage
    /\ dom.pokemonName # <<>>
    /\ Pending # {}
    /\ ~LoadingVisible /\ ~CardVisible

(* What the user sees of an outcome: the visible error text and card *)
ShownOutcome(d) ==
    [error |-> IF d.errorMessageHidden THEN {} ELSE {d.errorText},
     card  |-> IF d.pokemonCardHidden THEN {}
               ELSE {<<d.pokemonName, d.pokemonId, d.pokemonImages, d.pokemonHeight,
                       d.pokemonWeight, d.pokemonExperience, d.pokemonTypes>>}]

(* C19: the response to an earlier query never overwrites the result of a  *)
(* later one: when a lookup settles after a lookup initiated later than it *)
(* has already settled, the outcome shown does not change, so that once    *)
(* all lookups have settled the outcome of the latest one is shown.        *)
C19_EarlierResponseNeverOverwrites ==
    [][\A i \in 1..Len(lookups) :
          (/\ SettlesNow(i)
           /\ \E j \in (i + 1)..Len(lookups) : lookups[j].promise # "pending")
              => ShownOutcome(dom') = ShownOutcome(dom)]_vars

(* C20: a click on the theme toggle flips isDarkMode and leaves the busy   *)
(* state, the views, the displayed outcome, the input and the lookups      *)
(* untouched; no other step changes the theme; and a second toggle right   *)
(* after brings back the theme state the first one started from.           *)
C20_ThemeToggleIndependent ==
    [][IF lastEvent' = "toggle"
           THEN /\ isDarkMode' = ~isDarkMode
                /\ UNCHANGED <<dom, pokemonInputValue, lookups, requests, lastSettle>>
                /\ toggleTheme(isDarkMode', themeClasses')
                      = [isDarkMode |-> isDarkMode, classes |-> themeClasses]
           ELSE UNCHANGED <<isDarkMode, themeClasses>>]_vars

C20_Witness ==
    /\ lastEvent = "toggle"
    /\ ~isDarkMode
    /\ themeClasses = LightClasses
    /\ Pending # {}
    /\ LoadingVisible

====
